---- MODULE Spec2Model ----
(***************************************************************************)
(* A model of GeneticInheritanceGraphLibrary/tables.py: the row tables     *)
(* (BaseTable, IEdgeTable, NodeTable, IndividualTable) and the Tables      *)
(* aggregate with its algorithms sort, decapitate, change_times,           *)
(* add_iedge_row, freeze, clear and copy.                                  *)
(*                                                                         *)
(* A table is modelled by its row sequence (BaseTable._data) and its       *)
(* _frozen attribute; the iedge table also by its flag word.  Python rows  *)
(* are 0-indexed, TLA+ sequences 1-indexed: row id i is element i + 1.     *)
(* Times are floats in the source and small integers here (exact           *)
(* arithmetic).  Every public call is one action; `call` records which     *)
(* call was made last and whether it raised.                               *)
(***************************************************************************)
EXTENDS Integers, Sequences, FiniteSets, TLC

VARIABLES
    nodes,          \* Tables.nodes._data: sequence of NodeTableRow
    iedges,         \* Tables.iedges._data: sequence of IEdgeTableRow
    individuals,    \* Tables.individuals._data: sequence of IndividualTableRow
    flags,          \* Tables.iedges.flags: the set of guarantee bits that are set
    frozen,         \* _frozen of each owned table object
    tables_frozen,  \* Tables._frozen
    time_units,     \* Tables.time_units
    call            \* the last public call: its name, target, argument, outcome
                    \* and return value

vars == <<nodes, iedges, individuals, flags, frozen, tables_frozen, time_units,
          call>>

data == <<nodes, iedges, individuals, flags, time_units>>

-----------------------------------------------------------------------------
(* Bounds of the model *)

\* The longest tables and row lists of the life of a Tables object
MaxNodes == 1
MaxIEdges == 1
MaxIndividuals == 1
MaxRowList == 2

\* The longest node table add_iedge_row is called on
MaxAddNodes == 2

\* The longest tables given to sort
MaxSortNodes == 2
MaxSortEdges == 3

\* The longest node table of a well-ordered graph given to sort
MaxGigNodes == 4
MaxGigEdges == 2

\* The longest tables given to decapitate
MaxDecapNodes == 2
MaxDecapIndividuals == 2
MaxDecapIEdges == 1

\* The longest node table given to change_times, and the largest time and
\* time shift, in absolute value
MaxShiftNodes == 2
MaxShiftTime == 2

-----------------------------------------------------------------------------
(* Constants of the program *)

\* constants.NULL (imported at tables.py:10; constants.py is not among the
\* sources), the null id of tskit; an int, as it is the default of the int
\* fields edge, individual, ...
NULL == -1

\* The guarantee bits of the iedge flag word (constants.py).  The word is
\* modelled as the set of bits that are set, so x &= ~flag is set difference.
IEDGES_PARENT_OLDER_THAN_CHILD == {"parent_older_than_child"}
VALID_GIG == {"parent_older_than_child", "other_guarantees"}

TableNames == {"nodes", "iedges", "individuals"}

-----------------------------------------------------------------------------
(* Row records *)

NodeTableRow(t, f, i) == [time |-> t, flags |-> f, individual |-> i]

IndividualTableRow(p) == [parents |-> p]

IEdgeTableRow(cl, cr, pl, pr, c, p, e, cc, pc) ==
    [child_left |-> cl, child_right |-> cr, parent_left |-> pl,
     parent_right |-> pr, child |-> c, parent |-> p, edge |-> e,
     child_chromosome |-> cc, parent_chromosome |-> pc]

-----------------------------------------------------------------------------
(* Python indexing: list[i] and ndarray[i] accept -len <= i < len and count  *)
(* a negative i from the end; anything else is an IndexError.                *)

InRange(seq, i) == i >= 0 - Len(seq) /\ i < Len(seq)

GetItem(seq, i) == IF i >= 0 THEN seq[i + 1] ELSE seq[Len(seq) + i + 1]

-----------------------------------------------------------------------------
(* Argument values.  A numeric argument is kept with its Python type, its    *)
(* value counted in halves so that 0.5 is representable: the int 3 is        *)
(* IntVal(3), the float 3.0 is FloatVal(6), the float 0.5 is FloatVal(1).    *)

IntVal(n) == [kind |-> "int", halves |-> 2 * n]

FloatVal(h) == [kind |-> "float", halves |-> h]

StrVal == [kind |-> "str", halves |-> 0]

\* An argument list that the RowClass constructor rejects (a TypeError).
BadArgs == [bad |-> TRUE]

\* BaseTable._check_int: an int is returned as it is, an integral float is
\* converted, a fractional float is a ValueError, anything else a TypeError.
_check_int(v) ==
    IF v.kind = "int" THEN [ok |-> TRUE, value |-> v.halves \div 2]
    ELSE IF v.kind = "float" /\ v.halves % 2 = 0
         THEN [ok |-> TRUE, value |-> v.halves \div 2]
         ELSE [ok |-> FALSE, value |-> NULL]

\* The keyword arguments of a row that is already an IEdgeTableRow of ints
\* (dataclasses.asdict of the row), as IEdgeTable.append passes them on.
to_dict(row) ==
    [child_left |-> IntVal(row.child_left), child_right |-> IntVal(row.child_right),
     parent_left |-> IntVal(row.parent_left), parent_right |-> IntVal(row.parent_right),
     child |-> IntVal(row.child), parent |-> IntVal(row.parent),
     edge |-> row.edge, child_chromosome |-> row.child_chromosome,
     parent_chromosome |-> row.parent_chromosome]

-----------------------------------------------------------------------------
(* The row-adding methods as functions of (frozen, rows, arguments); each    *)
(* returns whether the call raised and the row sequence it leaves behind.    *)

Outcome(raised, rows) == [raised |-> raised, rows |-> rows]

\* add_row on a table whose _data is a list whether it is frozen or not.
add_row_to_list(isfrozen, rows, args) ==
    IF args = BadArgs
    THEN Outcome(TRUE, rows)
    ELSE Outcome(FALSE, Append(rows, args))

\* BaseTable.add_row: self._data.append(RowClass(...)).  A frozen table's
\* _data is a tuple, which has no append.
add_row(isfrozen, rows, args) ==
    IF isfrozen \/ args = BadArgs
    THEN Outcome(TRUE, rows)
    ELSE Outcome(FALSE, Append(rows, args))

pcols == {"child_left", "child_right", "parent_left", "parent_right", "child", "parent"}

\* IEdgeTable.add_int_row: _check_int on the six pcols, then add_row.
add_int_row(isfrozen, rows, kwargs) ==
    IF kwargs = BadArgs THEN Outcome(TRUE, rows)
    ELSE IF \E k \in pcols : ~_check_int(kwargs[k]).ok THEN Outcome(TRUE, rows)
    ELSE add_row(isfrozen, rows,
                 [k \in DOMAIN kwargs |->
                     IF k \in pcols THEN _check_int(kwargs[k]).value ELSE kwargs[k]])

\* BaseTable.append / IEdgeTable.append: pick the row's fields out of obj and
\* call add_row (add_int_row for the iedge table).
append(t, isfrozen, rows, obj) ==
    IF t = "iedges" THEN add_int_row(isfrozen, rows, obj)
    ELSE add_row(isfrozen, rows, obj)

\* BaseTable.add_rows: for row in rowlist: self.append(row).  The rows before
\* the first one that raises stay appended.
RECURSIVE add_rows(_, _, _, _)
add_rows(t, isfrozen, rows, rowlist) ==
    IF rowlist = <<>> THEN Outcome(FALSE, rows)
    ELSE LET first == append(t, isfrozen, rows, Head(rowlist)) IN
         IF first.raised THEN first
         ELSE add_rows(t, isfrozen, first.rows, Tail(rowlist))

-----------------------------------------------------------------------------
(* Tables.sort *)

\* The keys with the time of the edge's parent as the primary key.
SortKeyParentTime(ns, e) ==
    <<IF InRange(ns, e.parent) THEN 0 - GetItem(ns, e.parent).time ELSE 0,
      e.child, e.child_left>>

\* The three lexsort keys of one edge, primary key first:
\* -self.nodes.time[self.iedges.child], self.iedges.child, self.iedges.child_left
SortKey(ns, e) ==
    <<0 - GetItem(ns, e.child).time, e.child, e.child_left>>

LexLess(a, b) ==
    \/ a[1] < b[1]
    \/ a[1] = b[1] /\ a[2] < b[2]
    \/ a[1] = b[1] /\ a[2] = b[2] /\ a[3] < b[3]

\* np.lexsort: the stable ordering of the indices by their keys.
lexsort(keys) ==
    LET n == Len(keys)
        Before(i, j) == LexLess(keys[i], keys[j]) \/ (keys[i] = keys[j] /\ i < j)
    IN [p \in 1..n |->
           CHOOSE i \in 1..n : Cardinality({j \in 1..n : Before(j, i)}) = p - 1]

\* self.nodes.time[self.iedges.child] is an IndexError if a child is no index
\* of the node array.
SortRaises(ns, es) == \E k \in 1..Len(es) : ~InRange(ns, es[k].child)

\* new_iedges: the rows appended to a fresh IEdgeTable in edge_order.
RECURSIVE AppendInOrder(_, _, _)
AppendInOrder(es, order, acc) ==
    IF order = <<>> THEN acc
    ELSE AppendInOrder(es, Tail(order),
                       append("iedges", FALSE, acc, to_dict(es[Head(order)])).rows)

SortedIEdges(ns, es) ==
    AppendInOrder(es, lexsort([k \in 1..Len(es) |-> SortKey(ns, es[k])]), <<>>)

-----------------------------------------------------------------------------
(* Tables.change_times *)

\* A rebuild that passes time and flags only, so that every new row takes the
\* default individual of NodeTableRow.
RECURSIVE ShiftedNodesDefaultIndividual(_, _, _)
ShiftedNodesDefaultIndividual(ns, timedelta, acc) ==
    IF ns = <<>> THEN acc
    ELSE ShiftedNodesDefaultIndividual(Tail(ns), timedelta,
                      add_row(FALSE, acc,
                              NodeTableRow(Head(ns).time + timedelta, Head(ns).flags,
                                           NULL)).rows)

\* node_table: one add_row per node, time shifted, flags and individual kept.
RECURSIVE ShiftedNodes(_, _, _)
ShiftedNodes(ns, timedelta, acc) ==
    IF ns = <<>> THEN acc
    ELSE ShiftedNodes(Tail(ns), timedelta,
                      add_row(FALSE, acc,
                              NodeTableRow(Head(ns).time + timedelta, Head(ns).flags,
                                           Head(ns).individual)).rows)

-----------------------------------------------------------------------------
(* Tables.decapitate *)

\* dict.get(key, default) and dict[key] = value on a dict kept as a function.
DictGet(d, key, default) == IF key \in DOMAIN d THEN d[key] ELSE default

DictPut(d, key, value) ==
    [k \in DOMAIN d \cup {key} |-> IF k = key THEN value ELSE d[k]]

\* The tuple of an individual's parents copied with the old ids.
MappedParentsNotRemapped(individual_map, parents) ==
    [k \in 1..Len(parents) |-> parents[k]]

\* The tuple of an individual's parents mapped through individual_map as it
\* stands when the individual is added.
MappedParents(individual_map, parents) ==
    [k \in 1..Len(parents) |-> DictGet(individual_map, parents[k], NULL)]

\* The locals of decapitate before its first loop.
DecapStart ==
    [individuals |-> <<>>, individual_map |-> (NULL :> NULL), nodes |-> <<>>,
     node_map |-> <<>>, iedges |-> <<>>, raised |-> FALSE]

\* The cutoff test of the first loop.
Kept(nd, time) == nd.time < time

\* One iteration of the first loop, on node u (0-based) of the old tables.
DecapNode(acc, u, ns, inds, time) ==
    LET nd == GetItem(ns, u)
        i == nd.individual
    IN IF acc.raised \/ ~Kept(nd, time) THEN acc
       ELSE IF ~InRange(inds, i) THEN [acc EXCEPT !.raised = TRUE]
       ELSE LET indiv == GetItem(inds, i)
                isnew == i \notin DOMAIN acc.individual_map
                inds2 == IF isnew
                         THEN add_row(FALSE, acc.individuals,
                                      IndividualTableRow(
                                          MappedParents(acc.individual_map,
                                                        indiv.parents))).rows
                         ELSE acc.individuals
                imap2 == IF isnew
                         THEN DictPut(acc.individual_map, i, Len(inds2) - 1)
                         ELSE acc.individual_map
                nodes2 == add_row(FALSE, acc.nodes,
                                  NodeTableRow(nd.time, nd.flags, imap2[i])).rows
            IN [acc EXCEPT !.individuals = inds2, !.individual_map = imap2,
                           !.nodes = nodes2,
                           !.node_map = DictPut(@, u, Len(nodes2) - 1)]

RECURSIVE DecapNodes(_, _, _, _, _)
DecapNodes(acc, u, ns, inds, time) ==
    IF u >= Len(ns) THEN acc
    ELSE DecapNodes(DecapNode(acc, u, ns, inds, time), u + 1, ns, inds, time)

\* The test of the second loop: the edge is kept if its parent was kept.
EdgeKept(node_map, ie) == ie.parent \in DOMAIN node_map

\* One iteration of the second loop; node_map[ie.child] is a KeyError if the
\* child was not kept.
DecapIEdge(acc, ie) ==
    IF acc.raised \/ ~EdgeKept(acc.node_map, ie) THEN acc
    ELSE IF ie.child \notin DOMAIN acc.node_map THEN [acc EXCEPT !.raised = TRUE]
    ELSE [acc EXCEPT !.iedges =
              add_row(FALSE, @,
                      IEdgeTableRow(ie.child_left, ie.child_right, ie.parent_left,
                                    ie.parent_right, acc.node_map[ie.child],
                                    acc.node_map[ie.parent], NULL, NULL, NULL)).rows]

RECURSIVE DecapIEdges(_, _)
DecapIEdges(acc, es) ==
    IF es = <<>> THEN acc
    ELSE DecapIEdges(DecapIEdge(acc, Head(es)), Tail(es))

\* The replacement tables built by the two loops of decapitate.
Decapitated(ns, es, inds, time) ==
    DecapIEdges(DecapNodes(DecapStart, 0, ns, inds, time), es)

-----------------------------------------------------------------------------
(* The record of the last call *)

None == [none |-> TRUE]

Called(op, target, arg, raised, result) ==
    [op |-> op, target |-> target, arg |-> arg, raised |-> raised, result |-> result]

NoCall == Called("none", "none", None, FALSE, None)

-----------------------------------------------------------------------------
(* The three owned tables by name *)

Rows(t) ==
    CASE t = "nodes" -> nodes
      [] t = "iedges" -> iedges
      [] t = "individuals" -> individuals

SetRows(t, rows) ==
    /\ nodes' = IF t = "nodes" THEN rows ELSE nodes
    /\ iedges' = IF t = "iedges" THEN rows ELSE iedges
    /\ individuals' = IF t = "individuals" THEN rows ELSE individuals

-----------------------------------------------------------------------------
(* Calls on one table: tables.nodes, tables.iedges or tables.individuals *)

\* table.add_row(...)
TableAddRow(t, args) ==
    \E out \in {add_row(frozen[t], Rows(t), args)} :
    /\ SetRows(t, out.rows)
    /\ call' = Called("add_row", t, None, out.raised,
                      IF out.raised THEN None ELSE Len(out.rows) - 1)
    /\ UNCHANGED <<flags, frozen, tables_frozen, time_units>>

\* table.append(obj)
TableAppend(t, obj) ==
    \E out \in {append(t, frozen[t], Rows(t), obj)} :
    /\ SetRows(t, out.rows)
    /\ call' = Called("append", t, None, out.raised,
                      IF out.raised THEN None ELSE Len(out.rows) - 1)
    /\ UNCHANGED <<flags, frozen, tables_frozen, time_units>>

\* tables.iedges.add_int_row(...)
IEdgesAddIntRow(kwargs) ==
    \E out \in {add_int_row(frozen["iedges"], iedges, kwargs)} :
    /\ iedges' = out.rows
    /\ call' = Called("add_int_row", "iedges", None, out.raised,
                      IF out.raised THEN None ELSE Len(out.rows) - 1)
    /\ UNCHANGED <<nodes, individuals, flags, frozen, tables_frozen, time_units>>

\* table.add_rows(rowlist); the call record keeps the length of rowlist.
TableAddRows(t, rowlist) ==
    \E out \in {add_rows(t, frozen[t], Rows(t), rowlist)} :
    /\ SetRows(t, out.rows)
    /\ call' = Called("add_rows", t, Len(rowlist), out.raised, None)
    /\ UNCHANGED <<flags, frozen, tables_frozen, time_units>>

\* table.clear(): self._data = [], an attribute assignment, which a frozen
\* table refuses.  The flag word of the iedge table is not touched.
TableClear(t) ==
    /\ IF frozen[t]
       THEN UNCHANGED <<nodes, iedges, individuals>>
       ELSE SetRows(t, <<>>)
    /\ call' = Called("clear", t, None, frozen[t], None)
    /\ UNCHANGED <<flags, frozen, tables_frozen, time_units>>

\* table.freeze(): the assignment of the tuple to _data raises on a table
\* that is frozen already.
TableFreeze(t) ==
    /\ frozen' = [frozen EXCEPT ![t] = TRUE]
    /\ call' = Called("freeze", t, None, frozen[t], None)
    /\ UNCHANGED <<nodes, iedges, individuals, flags, tables_frozen, time_units>>

\* tables.iedges.unset_bitflag(flag): self.flags &= ~flag
IEdgesUnsetBitflag(flag) ==
    /\ flags' = IF frozen["iedges"] THEN flags ELSE flags \ flag
    /\ call' = Called("unset_bitflag", "iedges", flag, frozen["iedges"], None)
    /\ UNCHANGED <<nodes, iedges, individuals, frozen, tables_frozen, time_units>>

-----------------------------------------------------------------------------
(* Calls on the Tables aggregate *)

\* table_classes, in the order its loops visit the tables
TablePos(t) ==
    CASE t = "nodes" -> 1
      [] t = "iedges" -> 2
      [] t = "individuals" -> 3

\* The position of the first owned table that is frozen (4 if none is): a
\* loop that mutates each table in turn raises there.
FirstFrozen ==
    IF frozen["nodes"] THEN 1
    ELSE IF frozen["iedges"] THEN 2
    ELSE IF frozen["individuals"] THEN 3
    ELSE 4

\* tables.<attr> = value, for an owned table (value a new empty table) or
\* for time_units (value a label).
TablesSetAttr(attr, value) ==
    /\ call' = Called("setattr", attr, None, tables_frozen, None)
    /\ IF tables_frozen
       THEN UNCHANGED <<nodes, iedges, individuals, flags, frozen, time_units>>
       ELSE IF attr = "time_units"
       THEN /\ time_units' = value
            /\ UNCHANGED <<nodes, iedges, individuals, flags, frozen>>
       ELSE /\ SetRows(attr, <<>>)
            /\ frozen' = [frozen EXCEPT ![attr] = FALSE]
            /\ flags' = IF attr = "iedges" THEN VALID_GIG ELSE flags
            /\ UNCHANGED time_units
    /\ UNCHANGED tables_frozen

\* tables.freeze()
TablesFreeze ==
    /\ frozen' = [t \in TableNames |-> frozen[t] \/ TablePos(t) < FirstFrozen]
    /\ tables_frozen' = (tables_frozen \/ FirstFrozen = 4)
    /\ call' = Called("freeze", "tables", None, FirstFrozen < 4 \/ tables_frozen, None)
    /\ UNCHANGED <<nodes, iedges, individuals, flags, time_units>>

\* tables.clear()
TablesClear ==
    /\ nodes' = IF TablePos("nodes") < FirstFrozen THEN <<>> ELSE nodes
    /\ iedges' = IF TablePos("iedges") < FirstFrozen THEN <<>> ELSE iedges
    /\ individuals' = IF TablePos("individuals") < FirstFrozen THEN <<>> ELSE individuals
    /\ call' = Called("clear", "tables", None, FirstFrozen < 4, None)
    /\ UNCHANGED <<flags, frozen, tables_frozen, time_units>>

\* tables.copy(): a new Tables whose tables are BaseTable.copy() of the owned
\* ones, each a new object of the table's class with the same rows.
TablesCopy ==
    /\ call' = Called("copy", "tables", None, FALSE,
                      [nodes |-> nodes, iedges |-> iedges, individuals |-> individuals,
                       flags |-> VALID_GIG, time_units |-> time_units,
                       frozen |-> [t \in TableNames |-> FALSE],
                       tables_frozen |-> FALSE])
    /\ UNCHANGED <<nodes, iedges, individuals, flags, frozen, tables_frozen, time_units>>

\* tables.sort()
TablesSort ==
    LET raised == iedges # <<>> /\ (SortRaises(nodes, iedges) \/ tables_frozen) IN
    /\ call' = Called("sort", "tables", None, raised, None)
    /\ IF iedges = <<>> \/ raised
       THEN UNCHANGED <<iedges, flags, frozen>>
       ELSE /\ iedges' = SortedIEdges(nodes, iedges)
            /\ flags' = VALID_GIG
            /\ frozen' = [frozen EXCEPT !["iedges"] = FALSE]
    /\ UNCHANGED <<nodes, individuals, tables_frozen, time_units>>

\* tables == other: the rows of the three tables and the time units; neither
\* the flag word of the iedge table nor the frozen states are compared.
TablesEq(self, other) ==
    /\ self.nodes = other.nodes
    /\ self.iedges = other.iedges
    /\ self.individuals = other.individuals
    /\ self.time_units = other.time_units

\* tables.change_times(timedelta)
TablesChangeTimes(timedelta) ==
    /\ call' = Called("change_times", "tables", timedelta, tables_frozen, None)
    /\ IF tables_frozen
       THEN UNCHANGED <<nodes, frozen>>
       ELSE /\ nodes' = ShiftedNodes(nodes, timedelta, <<>>)
            /\ frozen' = [frozen EXCEPT !["nodes"] = FALSE]
    /\ UNCHANGED <<iedges, individuals, flags, tables_frozen, time_units>>

\* tables.decapitate(time): the two loops, the three assignments, then sort()
\* on the new tables.
TablesDecapitate(time) ==
    \E new \in {Decapitated(nodes, iedges, individuals, time)} :
    LET assigned == ~new.raised /\ ~tables_frozen
        sorts == assigned /\ new.iedges # <<>> /\ ~SortRaises(new.nodes, new.iedges)
    IN
    /\ call' = Called("decapitate", "tables", time,
                      ~assigned \/ (new.iedges # <<>> /\ ~sorts), None)
    /\ IF assigned
       THEN /\ nodes' = new.nodes
            /\ individuals' = new.individuals
            /\ iedges' = IF sorts THEN SortedIEdges(new.nodes, new.iedges) ELSE new.iedges
            /\ flags' = VALID_GIG
            /\ frozen' = [t \in TableNames |-> FALSE]
       ELSE UNCHANGED <<nodes, iedges, individuals, flags, frozen>>
    /\ UNCHANGED <<tables_frozen, time_units>>

\* tables.add_iedge_row(..., child=, parent=, node_time_validation=), with
\* node_time_validation "True", "False" or "None".  A failed check is a
\* ValueError.  Past the check the method reaches for self.edges, and a Tables
\* has the attributes nodes, iedges, individuals and time_units only: an
\* AttributeError on every remaining path, before unset_bitflag or add_row
\* is called.  The call record keeps the kind of the exception.
TablesAddIEdgeRow(row, node_time_validation) ==
    LET check_raises ==
            /\ node_time_validation = "True"
            /\ \/ ~InRange(nodes, row.child)
               \/ ~InRange(nodes, row.parent)
               \/ GetItem(nodes, row.child).time >= GetItem(nodes, row.parent).time
    IN
    /\ call' = Called("add_iedge_row", "tables",
                      [row |-> row, node_time_validation |-> node_time_validation],
                      TRUE,
                      IF check_raises THEN "ValueError" ELSE "AttributeError")
    /\ UNCHANGED <<nodes, iedges, individuals, flags, frozen, tables_frozen,
                   time_units>>

-----------------------------------------------------------------------------
(* Inputs *)

\* Node times and left coordinates the calls are made with.
Times == {0, 1}

Lefts == {0, 1}

Edge(c, p, cl) == IEdgeTableRow(cl, 10, cl, 10, c, p, NULL, NULL, NULL)

RECURSIVE SeqsUpTo(_, _)
SeqsUpTo(S, n) ==
    IF n = 0 THEN {<<>>}
    ELSE LET shorter == SeqsUpTo(S, n - 1) IN
         shorter \cup {Append(q, x) : q \in shorter, x \in S}

\* Row arguments of add_row, per table, with one argument list that the row
\* class rejects.
LifeArgs(t) ==
    CASE t = "nodes" -> {NodeTableRow(0, 0, NULL), BadArgs}
      [] t = "iedges" -> {Edge(0, 0, 0), BadArgs}
      [] t = "individuals" -> {IndividualTableRow(<<>>), BadArgs}

\* Objects given to append and add_int_row: for the iedge table the left
\* coordinate also comes as the floats 0.0 and 0.5 and as a string.
LifeObjs(t) ==
    IF t = "iedges"
    THEN {to_dict(Edge(0, 0, 0)), BadArgs}
         \cup {[to_dict(Edge(0, 0, 0)) EXCEPT !.child_left = v] :
                  v \in {FloatVal(0), FloatVal(1), StrVal}}
    ELSE LifeArgs(t)

\* Row lists given to add_rows: good and rejected objects in any order.
NodeRowLists == SeqsUpTo(LifeArgs("nodes"), MaxRowList)

IEdgeRowLists == SeqsUpTo({to_dict(Edge(0, 0, 0)), BadArgs}, MaxRowList)

IndividualRowLists == SeqsUpTo(LifeArgs("individuals"), MaxRowList)

RowLists(t) ==
    CASE t = "nodes" -> NodeRowLists
      [] t = "iedges" -> IEdgeRowLists
      [] t = "individuals" -> IndividualRowLists

\* The (child, parent) pairs add_iedge_row is called with: a valid pair, an
\* equal-time pair, a null parent and a parent beyond the node table.
AddIEdgeRefs == {<<0, 1>>, <<0, 0>>, <<0, NULL>>, <<0, MaxAddNodes>>}

Validations == {"True", "False", "None"}

TimeUnits == {"unknown", "generations"}

Cutoffs == {0, 1, 2}

TimeDeltas == {-1, 1}

Bounded ==
    /\ Len(nodes') <= MaxNodes
    /\ Len(iedges') <= MaxIEdges
    /\ Len(individuals') <= MaxIndividuals
    /\ \A k \in 1..Len(nodes') : nodes'[k].time \in Times

-----------------------------------------------------------------------------
(* The life of a Tables object: every public call, in any order *)

Init ==
    /\ nodes = <<>>
    /\ iedges = <<>>
    /\ individuals = <<>>
    /\ flags = VALID_GIG
    /\ frozen = [t \in TableNames |-> FALSE]
    /\ tables_frozen = FALSE
    /\ time_units = "unknown"
    /\ call = NoCall

Next ==
    \/ \E t \in TableNames : \E args \in LifeArgs(t) : TableAddRow(t, args) /\ Bounded
    \/ \E t \in TableNames : \E obj \in LifeObjs(t) : TableAppend(t, obj) /\ Bounded
    \/ \E kwargs \in LifeObjs("iedges") : IEdgesAddIntRow(kwargs) /\ Bounded
    \/ \E t \in TableNames : \E rowlist \in RowLists(t) :
           TableAddRows(t, rowlist) /\ Bounded
    \/ \E t \in TableNames : TableClear(t)
    \/ \E t \in TableNames : TableFreeze(t)
    \/ IEdgesUnsetBitflag(IEDGES_PARENT_OLDER_THAN_CHILD)
    \/ \E t \in TableNames : TablesSetAttr(t, <<>>)
    \/ \E u \in TimeUnits : TablesSetAttr("time_units", u)
    \/ TablesFreeze
    \/ TablesClear
    \/ TablesCopy
    \/ TablesSort
    \/ \E d \in TimeDeltas : TablesChangeTimes(d) /\ Bounded
    \/ \E time \in Cutoffs : TablesDecapitate(time)
    \/ \E v \in Validations : TablesAddIEdgeRow(Edge(0, 0, 0), v)

Spec == Init /\ [][Next]_vars

-----------------------------------------------------------------------------
(* Building an edge table and sorting it *)

SortRefs == {0, 1}

NextSort ==
    \/ \E tm \in Times :
           TableAddRow("nodes", NodeTableRow(tm, 0, NULL)) /\ Len(nodes') <= MaxSortNodes
    \/ \E c \in SortRefs, p \in SortRefs, cl \in Lefts :
           TableAddRow("iedges", Edge(c, p, cl)) /\ Len(iedges') <= MaxSortEdges
    \/ TablesSort

SpecSort == Init /\ [][NextSort]_vars

-----------------------------------------------------------------------------
(* Sorting a well-ordered graph: node u has time u, and every edge has a      *)
(* parent that is strictly older than its child                              *)

NextSortGig ==
    \/ /\ TableAddRow("nodes", NodeTableRow(Len(nodes), 0, NULL))
       /\ Len(nodes') <= MaxGigNodes
    \/ \E p \in 1..(Len(nodes) - 1) : \E c \in 0..(p - 1) :
           TableAddRow("iedges", Edge(c, p, 0)) /\ Len(iedges') <= MaxGigEdges
    \/ TablesSort

SpecSortGig == Init /\ [][NextSortGig]_vars

-----------------------------------------------------------------------------
(* Building a node table and adding edges through the aggregate *)

NextAddIEdge ==
    \/ \E tm \in Times :
           TableAddRow("nodes", NodeTableRow(tm, 0, NULL)) /\ Len(nodes') <= MaxAddNodes
    \/ \E f \in {IEDGES_PARENT_OLDER_THAN_CHILD, VALID_GIG \ IEDGES_PARENT_OLDER_THAN_CHILD} :
           IEdgesUnsetBitflag(f)
    \/ \E r \in AddIEdgeRefs : \E v \in Validations :
           TablesAddIEdgeRow(Edge(r[1], r[2], 0), v)

SpecAddIEdge == Init /\ [][NextAddIEdge]_vars

-----------------------------------------------------------------------------
(* Building nodes, individuals and edges and decapitating them *)

\* (time, flags) of the nodes: samples at time 0, other nodes at time 1.
\* No individual is added as its own parent.
DecapNodeShapes == {<<0, 1>>, <<1, 0>>}

DecapRefs == {0, 1}

\* (child, parent) of the edges: along the node order and against it
DecapEdgeRefs == {<<0, 1>>, <<1, 0>>}

DecapParents == {<<>>, <<0>>, <<1>>}

NextDecap ==
    \/ \E sh \in DecapNodeShapes, i \in {NULL} \cup DecapRefs :
           /\ TableAddRow("nodes", NodeTableRow(sh[1], sh[2], i))
           /\ Len(nodes') <= MaxDecapNodes
    \/ \E ps \in DecapParents :
           /\ \A k \in 1..Len(ps) : ps[k] # Len(individuals)
           /\ TableAddRow("individuals", IndividualTableRow(ps))
           /\ Len(individuals') <= MaxDecapIndividuals
    \/ \E r \in DecapEdgeRefs :
           TableAddRow("iedges", Edge(r[1], r[2], 0)) /\ Len(iedges') <= MaxDecapIEdges
    \/ \E time \in Cutoffs : TablesDecapitate(time)

SpecDecap == Init /\ [][NextDecap]_vars

-----------------------------------------------------------------------------
(* Building nodes that carry flags and individuals, and shifting their times *)

\* A sample at time 0 without an individual and an older node of individual 0;
\* the individual table gets that one individual and the iedge table one edge
\* between the two nodes.
ShiftNodeRows == {NodeTableRow(0, 1, NULL), NodeTableRow(1, 0, 0)}

ShiftDeltas == (0 - MaxShiftTime)..MaxShiftTime

ShiftBounded ==
    \A k \in 1..Len(nodes') :
        nodes'[k].time >= 0 - MaxShiftTime /\ nodes'[k].time <= MaxShiftTime

NextChangeTimes ==
    \/ \E row \in ShiftNodeRows :
           TableAddRow("nodes", row) /\ Len(nodes') <= MaxShiftNodes
    \/ individuals = <<>> /\ TableAddRow("individuals", IndividualTableRow(<<>>))
    \/ iedges = <<>> /\ TableAddRow("iedges", Edge(0, 1, 0))
    \/ TableFreeze("nodes")
    \/ \E u \in TimeUnits : TablesSetAttr("time_units", u)
    \/ TablesFreeze
    \/ \E d \in ShiftDeltas : TablesChangeTimes(d) /\ ShiftBounded

SpecChangeTimes == Init /\ [][NextChangeTimes]_vars

-----------------------------------------------------------------------------
(* Properties of sort *)

Returned(op) == call.op = op /\ ~call.raised

\* Every edge's child and parent is the id of a row of the node table.
ReferencesExist(ns, es) ==
    \A k \in 1..Len(es) :
        /\ es[k].child >= 0 /\ es[k].child < Len(ns)
        /\ es[k].parent >= 0 /\ es[k].parent < Len(ns)

ParentTime(k) == GetItem(nodes, iedges[k].parent).time

\* C1: after sort() returns on tables whose edges all reference existing
\* nodes, the parent node times read along the iedge table never increase.
C1_ParentTimesNonIncreasing ==
    (Returned("sort") /\ ReferencesExist(nodes, iedges)) =>
        \A k \in 1..(Len(iedges) - 1) : ParentTime(k) >= ParentTime(k + 1)

-----------------------------------------------------------------------------
(* Properties of freeze *)

\* The calls on one table that change it when they succeed.
TableMutators == {"add_row", "append", "add_int_row", "clear", "unset_bitflag"}

\* The call `c`, made in the current state, is one of the calls on the
\* aggregate that replace or empty a table or the label: an attribute
\* assignment, clear(), sort() of a non-empty edge table, decapitate() or
\* change_times() of a non-empty node table.
AggregateMutation(c) ==
    \/ c.op = "setattr"
    \/ c.op = "clear" /\ c.target = "tables"
    \/ c.op = "sort" /\ iedges # <<>>
    \/ c.op \in {"decapitate", "change_times"} /\ nodes # <<>>

\* One step from a state with a frozen table or a frozen aggregate: a mutating
\* call on the frozen object raises and leaves the rows, the flag word and
\* time_units as they were, and the object stays frozen.  add_rows counts as
\* mutating for every row list (any_rowlist) or for the non-empty ones only.
FrozenStep(any_rowlist) ==
    /\ ( /\ call'.target \in TableNames
         /\ frozen[call'.target]
         /\ \/ call'.op \in TableMutators
            \/ call'.op = "add_rows" /\ (any_rowlist \/ call'.arg > 0) )
       => (call'.raised /\ data' = data)
    /\ (tables_frozen /\ AggregateMutation(call'))
       => (call'.raised /\ data' = data)
    /\ (call'.target \in TableNames /\ call'.op # "setattr" /\ frozen[call'.target])
       => frozen'[call'.target]
    /\ tables_frozen => (tables_frozen' /\ \A t \in TableNames : frozen'[t])

\* C3 as stated: once a table or the aggregate is frozen, every add_row,
\* append, add_rows, add_int_row, clear, unset_bitflag on the table and every
\* reassignment, sort, decapitate, change_times on the aggregate raises and
\* changes nothing, and nothing unfreezes the object.
C3_FrozenRejectsEveryCall == [][FrozenStep(TRUE)]_vars

\* C3 amended: the same, with add_rows raising on a frozen table only when
\* its row list is not empty (add_rows of an empty list returns normally and
\* changes nothing).
C3_FrozenRejectsMutation == [][FrozenStep(FALSE)]_vars

\* sort() has just raised on a frozen aggregate whose tables hold rows and
\* whose flag word was changed before the freeze.
C3_Witness ==
    /\ tables_frozen
    /\ call.op = "sort" /\ call.raised
    /\ iedges # <<>> /\ nodes # <<>>
    /\ flags # VALID_GIG

-----------------------------------------------------------------------------
(* Properties of the flag word *)

Cleared(word) == IEDGES_PARENT_OLDER_THAN_CHILD \cap word = {}

\* C4: once the parent-older-than-child bit of tables.iedges is cleared, it
\* is still cleared after sort, decapitate, change_times, clear, append and
\* add_row, and it is cleared on the result of copy.
C4_ClearedFlagStaysCleared ==
    [][ ( /\ Cleared(flags)
          /\ call'.op \in {"sort", "decapitate", "change_times", "clear", "append",
                           "add_row", "copy"} )
        => ( /\ Cleared(flags')
             /\ call'.op = "copy" => Cleared(call'.result.flags) ) ]_vars

-----------------------------------------------------------------------------
(* Properties of decapitate *)

IsRef(i, table) == i >= 0 /\ i < Len(table)

\* Every reference of the tables is null or the id of a row, and every
\* edge's child and parent is the id of a node.
WellFormed(ns, es, inds) ==
    /\ ReferencesExist(ns, es)
    /\ \A k \in 1..Len(ns) : ns[k].individual = NULL \/ IsRef(ns[k].individual, inds)
    /\ \A k \in 1..Len(inds) : \A p \in 1..Len(inds[k].parents) :
           inds[k].parents[p] = NULL \/ IsRef(inds[k].parents[p], inds)

Young(ns, time) == SelectSeq(ns, LAMBDA nd : nd.time < time)

\* C5: on tables with well-formed references decapitate(t) does not raise,
\* and the new node table is the old nodes with time < t, in their order,
\* with time and flags as before.
C5_DecapitateKeepsYoungNodes ==
    [][ (call'.op = "decapitate" /\ WellFormed(nodes, iedges, individuals))
        => ( /\ ~call'.raised
             /\ Len(nodes') = Len(Young(nodes, call'.arg))
             /\ \A k \in 1..Len(nodes') :
                    /\ nodes'[k].time = Young(nodes, call'.arg)[k].time
                    /\ nodes'[k].flags = Young(nodes, call'.arg)[k].flags ) ]_vars

RECURSIVE Survivors(_, _, _)
Survivors(ns, time, acc) ==
    IF ns = <<>> THEN acc
    ELSE LET nd == Head(ns)
             seen == {acc[k] : k \in 1..Len(acc)}
         IN Survivors(Tail(ns), time,
                      IF nd.time < time /\ nd.individual # NULL
                         /\ nd.individual \notin seen
                      THEN Append(acc, nd.individual) ELSE acc)

NewId(surv, old) == (CHOOSE k \in 1..Len(surv) : surv[k] = old) - 1

\* C7: in the individual table decapitate(t) leaves, the parents of each
\* surviving individual are the old parents with every surviving parent
\* replaced by its new id and every other parent by null, whatever the order
\* of the nodes.
C7_ParentsRemapped ==
    [][ ( /\ call'.op = "decapitate" /\ ~call'.raised
          /\ WellFormed(nodes, iedges, individuals) )
        => LET surv == Survivors(nodes, call'.arg, <<>>)
               alive == {surv[k] : k \in 1..Len(surv)}
           IN /\ Len(individuals') = Len(surv)
              /\ \A k \in 1..Len(surv) :
                     LET old == GetItem(individuals, surv[k]).parents IN
                     individuals'[k].parents =
                         [p \in 1..Len(old) |->
                             IF old[p] \in alive THEN NewId(surv, old[p]) ELSE NULL] ]_vars

-----------------------------------------------------------------------------
(* Properties of failing calls *)

\* C8: a call of add_row, append, add_rows, add_int_row, clear, add_iedge_row,
\* sort, decapitate or change_times that raises leaves the rows of the three
\* tables and the flag word exactly as they were.
C8_RaisingCallChangesNothing ==
    [][ ( /\ call'.raised
          /\ call'.op \in {"add_row", "append", "add_rows", "add_int_row", "clear",
                           "add_iedge_row", "sort", "decapitate", "change_times"} )
        => ( /\ nodes' = nodes /\ iedges' = iedges /\ individuals' = individuals
             /\ flags' = flags ) ]_vars

-----------------------------------------------------------------------------
(* Properties of add_iedge_row *)

\* C9: add_iedge_row with node_time_validation true appends exactly the given
\* row if child and parent are ids of nodes and the child's time is below the
\* parent's, and otherwise raises and changes nothing; with it false or
\* unspecified the row is appended unchecked.
C9_AddIEdgeRowAppends ==
    [][ call'.op = "add_iedge_row"
        => LET row == call'.arg.row
               checked == call'.arg.node_time_validation = "True"
               valid == /\ IsRef(row.child, nodes) /\ IsRef(row.parent, nodes)
                        /\ GetItem(nodes, row.child).time < GetItem(nodes, row.parent).time
           IN IF checked /\ ~valid
              THEN call'.raised /\ iedges' = iedges /\ nodes' = nodes
              ELSE ~call'.raised /\ iedges' = Append(iedges, row) /\ nodes' = nodes ]_vars

\* C10: add_iedge_row with node_time_validation unspecified clears the
\* parent-older-than-child bit and no other; with it true or false the flag
\* word stays; a new iedge table has the full VALID_GIG word.
C10_DefaultValidationClearsFlag ==
    /\ (call.op = "none" => flags = VALID_GIG)
    /\ [][ call'.op = "add_iedge_row"
           => flags' = IF call'.arg.node_time_validation = "None"
                       THEN flags \ IEDGES_PARENT_OLDER_THAN_CHILD
                       ELSE flags ]_vars

-----------------------------------------------------------------------------
(* Properties of change_times *)

\* C11: on an unfrozen Tables, change_times(d) returns and leaves a node table
\* of the same length in which row i has the old time plus d and the old
\* flags and individual; the iedge table, the individual table and
\* time_units stay as they were; and change_times(-d) on the result gives
\* tables equal to the original ones.
C11_ChangeTimesShifts ==
    [][ ( call'.op = "change_times" /\ ~tables_frozen )
        => LET d == call'.arg
               original == [nodes |-> nodes, iedges |-> iedges,
                            individuals |-> individuals, time_units |-> time_units]
               restored == [nodes |-> ShiftedNodes(nodes', 0 - d, <<>>),
                            iedges |-> iedges', individuals |-> individuals',
                            time_units |-> time_units']
           IN /\ ~call'.raised
              /\ Len(nodes') = Len(nodes)
              /\ \A k \in 1..Len(nodes) :
                     /\ nodes'[k].time = nodes[k].time + d
                     /\ nodes'[k].flags = nodes[k].flags
                     /\ nodes'[k].individual = nodes[k].individual
              /\ iedges' = iedges /\ flags' = flags
              /\ individuals' = individuals
              /\ time_units' = time_units
              /\ TablesEq(restored, original) ]_vars

\* change_times has returned with a shift other than zero on a full node
\* table that holds a flagged row, a row with an individual and a time below
\* zero, next to an edge, an individual and time units that were set.
C11_Witness ==
    /\ Returned("change_times")
    /\ call.arg # 0
    /\ Len(nodes) = MaxShiftNodes
    /\ \E k \in 1..Len(nodes) : nodes[k].flags # 0
    /\ \E k \in 1..Len(nodes) : nodes[k].individual # NULL
    /\ \E k \in 1..Len(nodes) : nodes[k].time < 0
    /\ iedges # <<>>
    /\ individuals # <<>>
    /\ time_units # "unknown"

====
